---------------------------- MODULE Spec2Model ----------------------------
(***************************************************************************)
(* Model of the copyright tool (version 1.2.0, the Go program carried in   *)
(* src/build.sh from line 43 on): main, processTemplate, loadFile and the  *)
(* filepath.Walk callback.                                                 *)
(*                                                                         *)
(* Text is modelled byte by byte: a string is a sequence of one-character  *)
(* strings, a file is the sequence of its bytes.                           *)
(***************************************************************************)
EXTENDS Naturals, Sequences, FiniteSets, TLC

VARIABLES
    cfg,            \* the parsed command line (flags and targets), fixed for a run
    tmplFile,       \* the template file: [readable, data]
    disk,           \* file path -> content (bytes)
    pc,             \* position of main / of the Walk callback
    tmpl,           \* main's tmpl: the rendered header once processTemplate has run
    extMap,         \* main's extMap: the set of extensions mapped to true
    pending,        \* index into cfg.targets of the target being walked
    todo,           \* filepath.Walk: the entries of the current target still to visit
    path,           \* the callback's path argument (the file being processed)
    f,              \* loadFile: the bytes the scanner has not consumed yet
    state,          \* loadFile: the classifier's state
    trimmedBuffer,  \* loadFile: trimmedBuffer
    contentBuffer,  \* loadFile: contentBuffer
    buffer,         \* the callback's buffer (what loadFile returned)
    open,           \* the file handles currently open: <<path, "r"|"w">>
    stdout,         \* the lines printed to standard output
    before,         \* history: disk when the current run started
    runs,           \* history: number of the current run of the tool
    log             \* history: the file operations of the current run, in order

vars == <<cfg, tmplFile, disk, pc, tmpl, extMap, pending, todo, path, f, state,
          trimmedBuffer, contentBuffer, buffer, open, stdout, before, runs, log>>

-----------------------------------------------------------------------------
(* Bytes and the string functions of the Go library the program calls.     *)

LF == "\n"
CR == "\r"

\* strings.HasPrefix / bytes.HasPrefix
HasPrefix(s, prefix) ==
    /\ Len(s) >= Len(prefix)
    /\ SubSeq(s, 1, Len(prefix)) = prefix

\* strings.HasSuffix
HasSuffix(s, suffix) ==
    /\ Len(s) >= Len(suffix)
    /\ SubSeq(s, Len(s) - Len(suffix) + 1, Len(s)) = suffix

\* unicode.IsSpace on the bytes that occur
IsSpace(c) == c \in {" ", "\t", LF, CR}

\* strings.TrimSpace
RECURSIVE TrimLeft(_)
TrimLeft(s) ==
    IF s # <<>> /\ IsSpace(Head(s)) THEN TrimLeft(Tail(s)) ELSE s

RECURSIVE TrimRight(_)
TrimRight(s) ==
    IF s # <<>> /\ IsSpace(s[Len(s)]) THEN TrimRight(SubSeq(s, 1, Len(s) - 1)) ELSE s

TrimSpace(s) == TrimRight(TrimLeft(s))

\* bytes.Contains / strings.Contains
Contains(s, sub) ==
    \E i \in 1..(Len(s) - Len(sub) + 1) : SubSeq(s, i, i + Len(sub) - 1) = sub

\* strings.Index: the index of the first occurrence of sub in s, 0 when there
\* is none
Index(s, sub) ==
    LET At(i) == SubSeq(s, i, i + Len(sub) - 1) = sub
        last  == Len(s) - Len(sub) + 1
    IN  IF \E i \in 1..last : At(i)
        THEN CHOOSE i \in 1..last : At(i) /\ \A j \in 1..(i - 1) : ~At(j)
        ELSE 0

\* strings.ReplaceAll, for a non-empty old
RECURSIVE ReplaceAll(_, _, _)
ReplaceAll(s, old, new) ==
    LET i == Index(s, old) IN
    IF i = 0 THEN s
    ELSE SubSeq(s, 1, i - 1) \o new
         \o ReplaceAll(SubSeq(s, i + Len(old), Len(s)), old, new)

\* index of the first occurrence of byte c in s, 0 when there is none
IndexByte(s, c) == Index(s, <<c>>)

\* index of the last occurrence of byte c in s, 0 when there is none
LastIndexByte(s, c) ==
    IF \E i \in 1..Len(s) : s[i] = c
    THEN CHOOSE i \in 1..Len(s) : s[i] = c /\ \A j \in (i + 1)..Len(s) : s[j] # c
    ELSE 0

\* bufio.dropCR
dropCR(data) ==
    IF data # <<>> /\ data[Len(data)] = CR THEN SubSeq(data, 1, Len(data) - 1) ELSE data

\* bufio.ScanLines on the unread bytes: the next token (scanner.Text()) and what
\* stays unread.  Called only with data # <<>>: at end of input Scan() is false.
ScanToken(data) ==
    LET i == IndexByte(data, LF) IN
    IF i = 0
    THEN [text |-> dropCR(data), rest |-> <<>>]
    ELSE [text |-> dropCR(SubSeq(data, 1, i - 1)), rest |-> SubSeq(data, i + 1, Len(data))]

\* every token a bufio.Scanner yields over data
RECURSIVE ScanLines(_)
ScanLines(data) ==
    IF data = <<>> THEN <<>>
    ELSE LET t == ScanToken(data) IN <<t.text>> \o ScanLines(t.rest)

\* strings.Split(s, sep) for a one-byte separator
RECURSIVE Split(_, _)
Split(s, sep) ==
    LET i == IndexByte(s, sep) IN
    IF i = 0 THEN <<s>>
    ELSE <<SubSeq(s, 1, i - 1)>> \o Split(SubSeq(s, i + 1, Len(s)), sep)

\* filepath.Base of a path given as the sequence of its elements
Base(p) == p[Len(p)]

\* filepath.Ext: the suffix from the final dot of the final element
Ext(p) ==
    LET name == Base(p)
        i    == LastIndexByte(name, ".")
    IN  IF i = 0 THEN <<>> ELSE SubSeq(name, i, Len(name))

-----------------------------------------------------------------------------
(* Program constants.                                                      *)

single == "single"
multi  == "multi"
hash   == "hash"

YearsToken   == <<"{","{",".","Y","e","a","r","s","}","}">>
AuthorsToken == <<"{","{",".","A","u","t","h","o","r","s","}","}">>
opyright     == <<"o","p","y","r","i","g","h","t">>

\* the built-in template of main
DefaultTemplate ==
    <<"C","o","p","y","r","i","g","h","t"," ","(","c",")"," ">> \o YearsToken
    \o <<" ","b","y"," ">> \o AuthorsToken
    \o <<"."," ","A","l","l"," ","r","i","g","h","t","s"," ","r","e","s","e","r","v","e","d",".",LF>>
    \o <<LF>>
    \o <<"T","h","i","s"," ","S","o","u","r","c","e"," ","C","o","d","e"," ","F","o","r","m"," ","i","s"," ","s","u","b","j","e","c","t"," ","t","o"," ","t","h","e"," ","t","e","r","m","s"," ","o","f"," ","t","h","e"," ","M","o","z","i","l","l","a"," ","P","u","b","l","i","c",LF>>
    \o <<"L","i","c","e","n","s","e",","," ","v","e","r","s","i","o","n"," ","2",".","0","."," ","I","f"," ","a"," ","c","o","p","y"," ","o","f"," ","t","h","e"," ","M","P","L"," ","w","a","s"," ","n","o","t"," ","d","i","s","t","r","i","b","u","t","e","d"," ","w","i","t","h",LF>>
    \o <<"t","h","i","s"," ","f","i","l","e",","," ","Y","o","u"," ","c","a","n"," ","o","b","t","a","i","n"," ","o","n","e"," ","a","t"," ","h","t","t","p",":","/","/","m","o","z","i","l","l","a",".","o","r","g","/","M","P","L","/","2",".","0","/",".",LF>>
    \o <<LF>>
    \o <<"T","h","i","s"," ","S","o","u","r","c","e"," ","C","o","d","e"," ","F","o","r","m"," ","i","s"," ","\"","I","n","c","o","m","p","a","t","i","b","l","e"," ","W","i","t","h"," ","S","e","c","o","n","d","a","r","y"," ","L","i","c","e","n","s","e","s","\"",","," ","a","s",LF>>
    \o <<"d","e","f","i","n","e","d"," ","b","y"," ","t","h","e"," ","M","o","z","i","l","l","a"," ","P","u","b","l","i","c"," ","L","i","c","e","n","s","e",","," ","v","e","r","s","i","o","n"," ","2",".","0",".">>

-----------------------------------------------------------------------------
(* processTemplate                                                         *)

\* the comment prefix processTemplate puts before each template line
Prefix(commentStyle) ==
    IF commentStyle = multi THEN <<" ","*">>
    ELSE IF commentStyle = hash THEN <<"#">>
    ELSE <<"/","/">>

\* RenderLine without the test for an empty line
RenderLineAlwaysSpace(prefix, line) == prefix \o <<" ">> \o line \o <<LF>>

\* the body of processTemplate's scanner loop for one line
RenderLine(prefix, line) ==
    prefix \o (IF line # <<>> THEN <<" ">> \o line ELSE <<>>) \o <<LF>>

RECURSIVE RenderLines(_, _)
RenderLines(prefix, lines) ==
    IF lines = <<>> THEN <<>>
    ELSE RenderLine(prefix, Head(lines)) \o RenderLines(prefix, Tail(lines))

\* the placeholder substitution at the head of processTemplate
Substitute(t, years, authors) ==
    ReplaceAll(ReplaceAll(t, YearsToken, years), AuthorsToken, authors)

processTemplate(t, commentStyle, years, authors) ==
    (IF commentStyle = multi THEN <<"/","*",LF>> ELSE <<>>)
    \o RenderLines(Prefix(commentStyle), ScanLines(Substitute(t, years, authors)))
    \o (IF commentStyle = multi THEN <<" ","*","/",LF>> ELSE <<>>)


-----------------------------------------------------------------------------
(* The directory tree the targets name.  A path is the sequence of its     *)
(* elements; ReadDir lists a directory's names in the sorted order         *)
(* filepath.Walk visits them in.                                           *)

nDot     == <<".">>
nGit     == <<".","g","i","t">>
nMainGo  == <<"m","a","i","n",".","g","o">>
nMainTxt == <<"m","a","i","n",".","t","x","t">>
nSub     == <<"s","u","b">>
nAGo     == <<"a",".","g","o">>
nXGo     == <<"x",".","g","o">>

pRoot    == <<nDot>>
pGit     == <<nDot, nGit>>
pGitX    == <<nDot, nGit, nXGo>>
pMainGo  == <<nDot, nMainGo>>
pMainTxt == <<nDot, nMainTxt>>
pSub     == <<nDot, nSub>>
pSubA    == <<nDot, nSub, nAGo>>

Dirs  == {pRoot, pGit, pSub}
Files == {pGitX, pMainGo, pMainTxt, pSubA}

ReadDir(p) ==
    IF p = pRoot THEN <<nGit, nMainGo, nMainTxt, nSub>>
    ELSE IF p = pGit THEN <<nXGo>>
    ELSE <<nAGo>>

\* filepath.Join(p, name) for every name of ReadDir(p), in order
Entries(p) == [i \in 1..Len(ReadDir(p)) |-> Append(p, ReadDir(p)[i])]

-----------------------------------------------------------------------------
(* main: flag checks, extension set, template                              *)

\* ValidStyle with the style check left out
ValidStyleAny(commentStyle) == TRUE

ValidStyle(commentStyle) == commentStyle \in {single, multi, hash}

\* the loop of main that fills extMap from the extensions flag
MakeExtMap(extensions) ==
    LET parts == Split(extensions, ",") IN
    { IF HasPrefix(parts[i], <<".">>) THEN parts[i] ELSE <<".">> \o parts[i] :
        i \in { j \in 1..Len(parts) : parts[j] # <<>> } }

\* the classifier states of loadFile
lookForAny        == 0
lookForSlashSlash == 1
lookForStarSlash  == 2
lookForHash       == 3
copyRemainder     == 4

\* where a terminating process leaves main
ExitOK   == "exit0"
ExitFail == "exit1"

\* ReturnErr with the error swallowed: the walk goes on
ReturnErrIgnored == "walk"

\* what the callback's "return err" leads to: Walk returns the error and
\* xos.ExitIfErr ends the process
ReturnErr == ExitFail

NoFile == <<>>

\* history entries: a file operation, and a completed rewrite with the content
\* the file then has
Event(op, p) == [op |-> op, path |-> p, data |-> <<>>]
Completed(p, data) == [op |-> "updated", path |-> p, data |-> data]

\* main from flag parsing to the call of processTemplate
Configure ==
    /\ pc = "main"
    /\ extMap' = IF Len(cfg.targets) # 0 /\ ValidStyle(cfg.commentStyle)
                 THEN MakeExtMap(cfg.extensions) ELSE {}
    /\ IF \/ Len(cfg.targets) = 0
          \/ ~ValidStyle(cfg.commentStyle)
          \/ MakeExtMap(cfg.extensions) = {}
          \/ (cfg.template # <<>> /\ ~tmplFile.readable)
       THEN /\ pc' = ExitFail
            /\ tmpl' = tmpl
       ELSE /\ pc' = "walk"
            /\ tmpl' = processTemplate(
                          IF cfg.template # <<>> THEN tmplFile.data ELSE DefaultTemplate,
                          cfg.commentStyle, cfg.years, cfg.authors)
    /\ UNCHANGED <<cfg, tmplFile, disk, pending, todo, path, f, state, trimmedBuffer,
                   contentBuffer, buffer, open, stdout, before, runs, log>>

-----------------------------------------------------------------------------
(* filepath.Walk over the targets, and the callback up to loadFile         *)

\* SkipDir that skips no directory
SkipDirNever(p) == FALSE

\* the directory test of the callback: a base name starting with "." other
\* than "." and ".."
SkipDir(p) ==
    LET b == Base(p) IN
    b # <<".">> /\ b # <<".",".">> /\ HasPrefix(b, <<".">>)

\* the for loop over targets: start the next Walk, or leave main
NextTarget ==
    /\ pc = "walk"
    /\ todo = <<>>
    /\ IF pending < Len(cfg.targets)
       THEN /\ pending' = pending + 1
            /\ todo' = <<cfg.targets[pending + 1]>>
            /\ pc' = pc
       ELSE /\ pc' = ExitOK
            /\ UNCHANGED <<pending, todo>>
    /\ UNCHANGED <<cfg, tmplFile, disk, tmpl, extMap, path, f, state, trimmedBuffer,
                   contentBuffer, buffer, open, stdout, before, runs, log>>

\* the callback on a directory
VisitDir ==
    /\ pc = "walk"
    /\ todo # <<>>
    /\ Head(todo) \in Dirs
    /\ todo' = IF SkipDir(Head(todo)) THEN Tail(todo)
               ELSE Entries(Head(todo)) \o Tail(todo)
    /\ UNCHANGED <<cfg, tmplFile, disk, pc, tmpl, extMap, pending, path, f, state,
                   trimmedBuffer, contentBuffer, buffer, open, stdout, before, runs, log>>

\* the callback on a file: the extension test
VisitFile ==
    /\ pc = "walk"
    /\ todo # <<>>
    /\ Head(todo) \in Files
    /\ todo' = Tail(todo)
    /\ IF Ext(Head(todo)) \in extMap
       THEN /\ path' = Head(todo)
            /\ pc' = "open"
       ELSE UNCHANGED <<path, pc>>
    /\ UNCHANGED <<cfg, tmplFile, disk, tmpl, extMap, pending, f, state, trimmedBuffer,
                   contentBuffer, buffer, open, stdout, before, runs, log>>

\* the callback called with err # nil (Lstat or ReadDir failed on the entry)
WalkErr ==
    /\ pc = "walk"
    /\ todo # <<>>
    /\ pc' = ReturnErr
    /\ log' = Append(log, Event("error", Head(todo)))
    /\ UNCHANGED <<cfg, tmplFile, disk, tmpl, extMap, pending, todo, path, f, state,
                   trimmedBuffer, contentBuffer, buffer, open, stdout, before, runs>>

-----------------------------------------------------------------------------
(* loadFile                                                                *)

\* AnyStep whose default case forgets to move to copyRemainder
AnyStepNoStop(line) ==
    IF HasPrefix(line, <<"/","/">>) THEN [state |-> lookForSlashSlash, trimmed |-> TRUE]
    ELSE IF HasPrefix(line, <<"/","*">>) THEN
        [state |-> IF HasSuffix(TrimSpace(line), <<"*","/">>)
                   THEN copyRemainder ELSE lookForStarSlash,
         trimmed |-> TRUE]
    ELSE IF HasPrefix(line, <<"#">>) THEN [state |-> lookForHash, trimmed |-> TRUE]
    ELSE [state |-> lookForAny, trimmed |-> FALSE]

\* case lookForAny of the switch in loadFile's scanner loop: the next state
\* and the buffer the line goes to
AnyStep(line) ==
    IF HasPrefix(line, <<"/","/">>) THEN [state |-> lookForSlashSlash, trimmed |-> TRUE]
    ELSE IF HasPrefix(line, <<"/","*">>) THEN
        [state |-> IF HasSuffix(TrimSpace(line), <<"*","/">>)
                   THEN copyRemainder ELSE lookForStarSlash,
         trimmed |-> TRUE]
    ELSE IF HasPrefix(line, <<"#">>) THEN [state |-> lookForHash, trimmed |-> TRUE]
    ELSE [state |-> copyRemainder, trimmed |-> FALSE]

\* LineCommentStep that keeps looking for the marker after a line without it
LineCommentStepStay(st, marker, line) ==
    IF HasPrefix(line, marker) THEN [state |-> st, trimmed |-> TRUE]
    ELSE [state |-> st, trimmed |-> FALSE]

\* cases lookForSlashSlash and lookForHash
LineCommentStep(st, marker, line) ==
    IF HasPrefix(line, marker) THEN [state |-> st, trimmed |-> TRUE]
    ELSE [state |-> copyRemainder, trimmed |-> FALSE]

\* StarSlashStep that tests the line without trimming it
StarSlashStepNoTrim(line) ==
    [state |-> IF HasSuffix(line, <<"*","/">>)
               THEN copyRemainder ELSE lookForStarSlash,
     trimmed |-> TRUE]

\* case lookForStarSlash
StarSlashStep(line) ==
    [state |-> IF HasSuffix(TrimSpace(line), <<"*","/">>)
               THEN copyRemainder ELSE lookForStarSlash,
     trimmed |-> TRUE]

\* Classify whose copyRemainder case looks for a comment again
ClassifyReopens(st, line) ==
    IF st = lookForAny THEN AnyStep(line)
    ELSE IF st = lookForSlashSlash THEN LineCommentStep(st, <<"/","/">>, line)
    ELSE IF st = lookForStarSlash THEN StarSlashStep(line)
    ELSE IF st = lookForHash THEN LineCommentStep(st, <<"#">>, line)
    ELSE AnyStep(line)

\* one pass of the switch in loadFile's scanner loop
Classify(st, line) ==
    IF st = lookForAny THEN AnyStep(line)
    ELSE IF st = lookForSlashSlash THEN LineCommentStep(st, <<"/","/">>, line)
    ELSE IF st = lookForStarSlash THEN StarSlashStep(line)
    ELSE IF st = lookForHash THEN LineCommentStep(st, <<"#">>, line)
    ELSE [state |-> copyRemainder, trimmed |-> FALSE]

\* Returned without the test for "opyright": the leading block is always dropped
ReturnedContentOnly(trimmed, content) == content

\* Returned with the leading block always kept
ReturnedKeepAll(trimmed, content) == trimmed \o content

\* the end of loadFile: which buffer is returned
Returned(trimmed, content) ==
    IF ~Contains(trimmed, opyright) THEN trimmed \o content ELSE content

\* os.Open succeeds; the scanner is set up
OpenFile ==
    /\ pc = "open"
    /\ open' = open \cup {<<path, "r">>}
    /\ f' = disk[path]
    /\ state' = lookForAny
    /\ trimmedBuffer' = <<>>
    /\ contentBuffer' = <<>>
    /\ log' = Append(log, Event("open", path))
    /\ pc' = "scan"
    /\ UNCHANGED <<cfg, tmplFile, disk, tmpl, extMap, pending, todo, path, buffer,
                   stdout, before, runs>>

\* os.Open fails
OpenFail ==
    /\ pc = "open"
    /\ pc' = ReturnErr
    /\ log' = Append(log, Event("error", path))
    /\ UNCHANGED <<cfg, tmplFile, disk, tmpl, extMap, pending, todo, path, f, state,
                   trimmedBuffer, contentBuffer, buffer, open, stdout, before, runs>>

\* one iteration of the scanner loop
ScanLine ==
    /\ pc = "scan"
    /\ f # <<>>
    /\ LET t == ScanToken(f)
           c == Classify(state, t.text)
       IN  /\ f' = t.rest
           /\ state' = c.state
           /\ trimmedBuffer' = IF c.trimmed THEN trimmedBuffer \o t.text \o <<LF>>
                               ELSE trimmedBuffer
           /\ contentBuffer' = IF c.trimmed THEN contentBuffer
                               ELSE contentBuffer \o t.text \o <<LF>>
    /\ UNCHANGED <<cfg, tmplFile, disk, pc, tmpl, extMap, pending, todo, path, buffer,
                   open, stdout, before, runs, log>>

\* the scanner stops on an error: scanner.Err() # nil, the deferred close runs
ScanFail ==
    /\ pc = "scan"
    /\ open' = open \ {<<path, "r">>}
    /\ pc' = ReturnErr
    /\ log' = Append(log, Event("error", path))
    /\ UNCHANGED <<cfg, tmplFile, disk, tmpl, extMap, pending, todo, path, f, state,
                   trimmedBuffer, contentBuffer, buffer, stdout, before, runs>>

\* ScanEnd without the deferred close of f
ScanEndKeepsOpen ==
    /\ pc = "scan"
    /\ f = <<>>
    /\ buffer' = Returned(trimmedBuffer, contentBuffer)
    /\ pc' = "create"
    /\ UNCHANGED <<cfg, tmplFile, disk, tmpl, extMap, pending, todo, path, f, state,
                   trimmedBuffer, contentBuffer, open, stdout, before, runs, log>>

\* end of input: the buffer is chosen, the deferred close runs
ScanEnd ==
    /\ pc = "scan"
    /\ f = <<>>
    /\ buffer' = Returned(trimmedBuffer, contentBuffer)
    /\ open' = open \ {<<path, "r">>}
    /\ pc' = "create"
    /\ UNCHANGED <<cfg, tmplFile, disk, tmpl, extMap, pending, todo, path, f, state,
                   trimmedBuffer, contentBuffer, stdout, before, runs, log>>


-----------------------------------------------------------------------------
(* The callback after loadFile: create, the three writes, the message      *)

\* the bytes a failing write may have put in the file before the error
PartialLens(data) == {0, Len(data) \div 2}

\* NeedsNewline without the test of the first byte
NeedsNewlineAlways(buf) == Len(buf) > 0

\* the separator test of the callback
NeedsNewline(buf) == Len(buf) > 0 /\ buf[1] # LF

\* os.Create succeeds: the file is truncated
CreateFile ==
    /\ pc = "create"
    /\ disk' = [disk EXCEPT ![path] = <<>>]
    /\ open' = open \cup {<<path, "w">>}
    /\ log' = Append(log, Event("create", path))
    /\ pc' = "header"
    /\ UNCHANGED <<cfg, tmplFile, tmpl, extMap, pending, todo, path, f, state,
                   trimmedBuffer, contentBuffer, buffer, stdout, before, runs>>

\* os.Create fails
CreateFail ==
    /\ pc = "create"
    /\ pc' = ReturnErr
    /\ log' = Append(log, Event("error", path))
    /\ UNCHANGED <<cfg, tmplFile, disk, tmpl, extMap, pending, todo, path, f, state,
                   trimmedBuffer, contentBuffer, buffer, open, stdout, before, runs>>

\* out.WriteString(tmpl)
WriteHeader ==
    /\ pc = "header"
    /\ disk' = [disk EXCEPT ![path] = @ \o tmpl]
    /\ log' = Append(log, Event("write", path))
    /\ pc' = "sep"
    /\ UNCHANGED <<cfg, tmplFile, tmpl, extMap, pending, todo, path, f, state,
                   trimmedBuffer, contentBuffer, buffer, open, stdout, before, runs>>

\* FailWrite without the deferred close of out
FailWriteNoClose(data) ==
    /\ \E n \in PartialLens(data) :
          disk' = [disk EXCEPT ![path] = @ \o SubSeq(data, 1, n)]
    /\ log' = Append(log, Event("error", path))
    /\ pc' = ReturnErr
    /\ UNCHANGED <<cfg, tmplFile, tmpl, extMap, pending, todo, path, f, state,
                   trimmedBuffer, contentBuffer, buffer, open, stdout, before, runs>>

\* a write fails: some of the bytes may be in the file, the deferred close of
\* out runs, the error is returned
FailWrite(data) ==
    /\ \E n \in PartialLens(data) :
          disk' = [disk EXCEPT ![path] = @ \o SubSeq(data, 1, n)]
    /\ open' = open \ {<<path, "w">>}
    /\ log' = Append(log, Event("error", path))
    /\ pc' = ReturnErr
    /\ UNCHANGED <<cfg, tmplFile, tmpl, extMap, pending, todo, path, f, state,
                   trimmedBuffer, contentBuffer, buffer, stdout, before, runs>>

WriteHeaderFail ==
    /\ pc = "header"
    /\ FailWrite(tmpl)

\* the separating newline, written when the buffer does not start with one
WriteSep ==
    /\ pc = "sep"
    /\ IF NeedsNewline(buffer)
       THEN /\ disk' = [disk EXCEPT ![path] = @ \o <<LF>>]
            /\ log' = Append(log, Event("write", path))
       ELSE UNCHANGED <<disk, log>>
    /\ pc' = "rest"
    /\ UNCHANGED <<cfg, tmplFile, tmpl, extMap, pending, todo, path, f, state,
                   trimmedBuffer, contentBuffer, buffer, open, stdout, before, runs>>

WriteSepFail ==
    /\ pc = "sep"
    /\ NeedsNewline(buffer)
    /\ FailWrite(<<LF>>)

\* buffer.WriteTo(out)
WriteRest ==
    /\ pc = "rest"
    /\ IF Len(buffer) > 0
       THEN /\ disk' = [disk EXCEPT ![path] = @ \o buffer]
            /\ log' = Append(log, Event("write", path))
       ELSE UNCHANGED <<disk, log>>
    /\ pc' = "report"
    /\ UNCHANGED <<cfg, tmplFile, tmpl, extMap, pending, todo, path, f, state,
                   trimmedBuffer, contentBuffer, buffer, open, stdout, before, runs>>

WriteRestFail ==
    /\ pc = "rest"
    /\ Len(buffer) > 0
    /\ FailWrite(buffer)

\* Report that prints the message in quiet mode too
ReportAlways ==
    /\ pc = "report"
    /\ stdout' = Append(stdout, <<"Updated", path>>)
    /\ open' = open \ {<<path, "w">>}
    /\ log' = Append(log, Completed(path, disk[path]))
    /\ pc' = "walk"
    /\ UNCHANGED <<cfg, tmplFile, disk, tmpl, extMap, pending, todo, path, f, state,
                   trimmedBuffer, contentBuffer, buffer, before, runs>>

\* the progress message, then return nil: the deferred close of out runs
Report ==
    /\ pc = "report"
    /\ stdout' = IF ~cfg.quiet THEN Append(stdout, <<"Updated", path>>) ELSE stdout
    /\ open' = open \ {<<path, "w">>}
    /\ log' = Append(log, Completed(path, disk[path]))
    /\ pc' = "walk"
    /\ UNCHANGED <<cfg, tmplFile, disk, tmpl, extMap, pending, todo, path, f, state,
                   trimmedBuffer, contentBuffer, buffer, before, runs>>

-----------------------------------------------------------------------------
(* Running the tool again with the same command line                       *)

MaxRuns == 2

Rerun ==
    /\ pc = ExitOK
    /\ runs < MaxRuns
    /\ runs' = runs + 1
    /\ before' = disk
    /\ pc' = "main"
    /\ tmpl' = <<>>
    /\ extMap' = {}
    /\ pending' = 0
    /\ todo' = <<>>
    /\ path' = NoFile
    /\ f' = <<>>
    /\ state' = lookForAny
    /\ trimmedBuffer' = <<>>
    /\ contentBuffer' = <<>>
    /\ buffer' = <<>>
    /\ stdout' = <<>>
    /\ log' = <<>>
    /\ UNCHANGED <<cfg, tmplFile, disk, open>>

-----------------------------------------------------------------------------
(* Inputs                                                                  *)

MaxTargets == 2

TmplPath == <<"t">>
Y2025    == <<"2","0","2","5">>
AuthorX  == <<"X">>

\* what every specification starts from, given the command line, the template
\* file and the files
Start(c, t, d) ==
    /\ cfg = c
    /\ tmplFile = t
    /\ disk = d
    /\ before = d
    /\ pc = "main"
    /\ tmpl = <<>>
    /\ extMap = {}
    /\ pending = 0
    /\ todo = <<>>
    /\ path = NoFile
    /\ f = <<>>
    /\ state = lookForAny
    /\ trimmedBuffer = <<>>
    /\ contentBuffer = <<>>
    /\ buffer = <<>>
    /\ open = {}
    /\ stdout = <<>>
    /\ runs = 1
    /\ log = <<>>

Unreadable == [readable |-> FALSE, data |-> <<>>]
Readable(data) == [readable |-> TRUE, data |-> data]

RunDisk ==
    (pMainGo :> <<"/","/"," ","C","o","p","y","r","i","g","h","t",LF,LF,"m",LF>>)
    @@ (pMainTxt :> <<"t",LF>>)
    @@ (pSubA :> <<"a">>)
    @@ (pGitX :> <<"/","*"," ","C","o","p","y","r","i","g","h","t"," ","*","/",LF,"g",LF>>)

RunTemplate ==
    <<"C","o","p","y","r","i","g","h","t"," ">> \o YearsToken \o <<" ">> \o AuthorsToken

RunExtensions ==
    { <<"g","o">>, <<"t","x","t",",",".","g","o">>, <<",">> }

TargetLists == UNION { [1..n -> Dirs \cup Files] : n \in 0..MaxTargets }

\* a whole run: any command line over the tree, every I/O failure possible
Init ==
    \E c \in [template : {<<>>, TmplPath}, extensions : RunExtensions,
              quiet : BOOLEAN, commentStyle : {single, multi, hash, "block"},
              years : {Y2025}, authors : {AuthorX}, targets : TargetLists] :
    \E t \in {Unreadable, Readable(RunTemplate)} :
        /\ c.template = <<>> => t = Unreadable
        /\ Start(c, t, RunDisk)

\* rendering only: templates, styles, years and authors
RenderTemplates ==
    { <<>>,
      <<"A",".">>,
      <<"A",".",LF,"B",".">>,
      <<"A",".",LF,LF,"B",".",LF>>,
      <<"A",".",CR,LF,"B",".",CR,LF>>,
      <<LF>>,
      <<"C","o","p","y","r","i","g","h","t"," ","(","c",")"," ","$","Y","E","A","R","$"," ","b","y"," ","X",".">>,
      <<"S","P","D","X"," ">> \o YearsToken \o YearsToken \o <<LF>>,
      RunTemplate,
      DefaultTemplate }

InitRender ==
    \E c \in [template : {<<>>, TmplPath}, extensions : {<<"g","o">>},
              quiet : {FALSE}, commentStyle : {single, multi, hash},
              years : {Y2025, <<"2","0","1","6","-","2","0","2","5">>},
              authors : {AuthorX, <<>>}, targets : {<<pMainGo>>}] :
    \E data \in RenderTemplates :
        /\ c.template = <<>> => data = DefaultTemplate
        /\ Start(c, Readable(data), RunDisk)

NextRender == Configure

SpecRender == InitRender /\ [][NextRender]_vars

\* one file: leading blocks, bodies and line terminators
MaxBody == 2

Blocks ==
    { <<>>,
      << <<"/","/"," ","C","o","p","y","r","i","g","h","t">> >>,
      << <<"/","/"," ","+","b","u","i","l","d"," ","l","i","n","u","x">> >>,
      << <<"/","/"," ","C","O","P","Y","R","I","G","H","T">> >>,
      << <<"/","/"," ","C","o","p","y","r","i","g","h","t">>, <<"/","/">> >>,
      << <<"/","*"," ","C","o","p","y","r","i","g","h","t"," ","*","/">> >>,
      << <<"/","*">>, <<" ","*"," ","C","o","p","y","r","i","g","h","t">>, <<" ","*","/"," ">> >>,
      << <<"/","*"," ","x"," ","*","/">> >>,
      << <<"#"," ","C","o","p","y","r","i","g","h","t">> >>,
      << <<"#"," ","x">> >>,
      << <<"/","*"," ","C","o","p","y","r","i","g","h","t">> >> }

BodyTexts == { <<>>, <<"m">>, <<"/","/"," ","y">>, <<"y"," ","*","/">> }

Bodies == UNION { [1..n -> BodyTexts] : n \in 0..MaxBody }

\* how the lines of a file end: the terminator, and whether the last line has one
Endings ==
    { [eol |-> <<LF>>, last |-> TRUE], [eol |-> <<LF>>, last |-> FALSE],
      [eol |-> <<CR,LF>>, last |-> TRUE], [eol |-> <<CR,CR,LF>>, last |-> TRUE] }

RECURSIVE Bytes(_, _)
Bytes(lines, e) ==
    IF lines = <<>> THEN <<>>
    ELSE Head(lines)
         \o (IF Len(lines) > 1 \/ e.last THEN e.eol ELSE <<>>)
         \o Bytes(Tail(lines), e)

FileContents == { Bytes(b \o r, e) : b \in Blocks, r \in Bodies, e \in Endings }

FileTemplates ==
    { RunTemplate \o <<LF,LF,"A",".",LF>>,
      <<"A",".",LF,"B",".">>,
      <<>> }

InitFile ==
    \E c \in [template : {TmplPath}, extensions : {<<"g","o">>},
              quiet : {FALSE}, commentStyle : {single, multi, hash},
              years : {Y2025}, authors : {AuthorX}, targets : {<<pMainGo>>}] :
    \E data \in FileTemplates :
    \E content \in FileContents :
        Start(c, Readable(data), [RunDisk EXCEPT ![pMainGo] = content])

NextFile ==
    \/ Configure
    \/ NextTarget
    \/ VisitFile
    \/ OpenFile
    \/ ScanLine
    \/ ScanEnd
    \/ CreateFile
    \/ WriteHeader
    \/ WriteSep
    \/ WriteRest
    \/ Report
    \/ Rerun

SpecFile == InitFile /\ [][NextFile]_vars

Next ==
    \/ Configure
    \/ NextTarget
    \/ VisitDir
    \/ VisitFile
    \/ WalkErr
    \/ OpenFile
    \/ OpenFail
    \/ ScanLine
    \/ ScanFail
    \/ ScanEnd
    \/ CreateFile
    \/ CreateFail
    \/ WriteHeader
    \/ WriteHeaderFail
    \/ WriteSep
    \/ WriteSepFail
    \/ WriteRest
    \/ WriteRestFail
    \/ Report

Spec == Init /\ [][Next]_vars


-----------------------------------------------------------------------------
(* Properties of the Header Renderer, checked under SpecRender             *)

\* concatenation of a sequence of byte sequences
RECURSIVE Flat(_)
Flat(ss) == IF ss = <<>> THEN <<>> ELSE Head(ss) \o Flat(Tail(ss))

\* the template text main hands to processTemplate
TemplateText == IF cfg.template # <<>> THEN tmplFile.data ELSE DefaultTemplate

\* the lines of the template after substitution
TemplateLines == ScanLines(Substitute(TemplateText, cfg.years, cfg.authors))

\* the header the specification describes for a list of lines
HeaderFormat(lines, style) ==
    LET marker == IF style = single THEN <<"/","/">>
                  ELSE IF style = hash THEN <<"#">> ELSE <<" ","*">>
        body == Flat([i \in 1..Len(lines) |->
                        marker \o (IF lines[i] = <<>> THEN <<>> ELSE <<" ">> \o lines[i])
                        \o <<LF>>])
    IN  IF style = multi THEN <<"/","*",LF>> \o body \o <<" ","*","/",LF>> ELSE body

EndsWithNewline(s) == s # <<>> /\ s[Len(s)] = LF

Rendered == pc = "walk"

TemplateAB == <<"A",".",LF,"B",".">>
HeaderABMulti ==
    <<"/","*",LF," ","*"," ","A",".",LF," ","*"," ","B",".",LF," ","*","/",LF>>

ExampleAB ==
    (cfg.commentStyle = multi /\ TemplateText = TemplateAB) => tmpl = HeaderABMulti

\* C6 as stated: the Rendered Header has the per-line format (prefix, a space
\* and the line, or the bare prefix for an empty line, then a newline; "/*" and
\* " */" lines around it for multi) and always ends with a newline.
C6_FormatAlwaysNewline ==
    Rendered =>
        /\ tmpl = HeaderFormat(TemplateLines, cfg.commentStyle)
        /\ ExampleAB
        /\ EndsWithNewline(tmpl)

\* C6 amended: the Rendered Header has the per-line format; it ends with a
\* newline when the template has at least one line or the style is multi, and
\* is empty for a template without lines in style single or hash.
C6_Format ==
    Rendered =>
        /\ tmpl = HeaderFormat(TemplateLines, cfg.commentStyle)
        /\ ExampleAB
        /\ (TemplateLines # <<>> \/ cfg.commentStyle = multi) => EndsWithNewline(tmpl)
        /\ (TemplateLines = <<>> /\ cfg.commentStyle # multi) => tmpl = <<>>

C6_Witness ==
    /\ Rendered
    /\ cfg.commentStyle = multi
    /\ TemplateText = TemplateAB
    /\ tmpl = HeaderABMulti

DollarYear == <<"$","Y","E","A","R","$">>

TemplateDollarYear ==
    <<"C","o","p","y","r","i","g","h","t"," ","(","c",")"," ","$","Y","E","A","R","$"," ","b","y"," ","X",".">>
HeaderYear2025 ==
    <<"/","/"," ","C","o","p","y","r","i","g","h","t"," ","(","c",")"," ","2","0","2","5"," ","b","y"," ","X",".",LF>>

\* C7: every $YEAR$ of the template is replaced by the years string: none is
\* left in the Rendered Header, and style single, template
\* "Copyright (c) $YEAR$ by X.", years "2025" render "// Copyright (c) 2025 by X.\n".
C7_YearSubstituted ==
    Rendered =>
        /\ ~Contains(tmpl, DollarYear)
        /\ (cfg.commentStyle = single /\ TemplateText = TemplateDollarYear
            /\ cfg.years = Y2025) => tmpl = HeaderYear2025


-----------------------------------------------------------------------------
(* Properties of the File Rewriter, checked under SpecFile                 *)

\* the run has ended successfully
Finished == pc = ExitOK

\* the files this run has rewritten to the end
Updated == { log[i].path : i \in { j \in 1..Len(log) : log[j].op = "updated" } }

\* the lines of a file, without their terminators
FileLines(data) == ScanLines(data)

\* lines written back, one per line with a newline appended
JoinLines(lines) == Flat([i \in 1..Len(lines) |-> lines[i] \o <<LF>>])

\* the leading comment block of the glossary: the number of lines, from the
\* first, that form it (0 when the file does not start with a comment)
BlockLen(lines) ==
    LET n == Len(lines)
        Starts(i, m) == HasPrefix(lines[i], m)
        Ends(i) == HasSuffix(TrimSpace(lines[i]), <<"*","/">>)
        Run(m) == CHOOSE k \in 1..n :
                     /\ \A i \in 1..k : Starts(i, m)
                     /\ k < n => ~Starts(k + 1, m)
    IN  IF n = 0 THEN 0
        ELSE IF Starts(1, <<"/","/">>) THEN Run(<<"/","/">>)
        ELSE IF Starts(1, <<"#">>) THEN Run(<<"#">>)
        ELSE IF Starts(1, <<"/","*">>) THEN
            IF \E k \in 1..n : Ends(k)
            THEN CHOOSE k \in 1..n : Ends(k) /\ \A j \in 1..(k - 1) : ~Ends(j)
            ELSE n
        ELSE 0

BlockText(lines) == JoinLines(SubSeq(lines, 1, BlockLen(lines)))

AfterBlock(lines) == JoinLines(SubSeq(lines, BlockLen(lines) + 1, Len(lines)))

IsCopyrightBlock(lines) == Contains(BlockText(lines), opyright)

\* the separator rule
Separator(rest) == IF rest # <<>> /\ rest[1] # LF THEN <<LF>> ELSE <<>>

\* what a rewritten file holds for a given retained content
Output(rest) == tmpl \o Separator(rest) \o rest

\* data without its first n lines, terminators included
RECURSIVE DropLines(_, _)
DropLines(data, n) ==
    IF n = 0 THEN data
    ELSE LET i == IndexByte(data, LF) IN
         IF i = 0 THEN <<>> ELSE DropLines(SubSeq(data, i + 1, Len(data)), n - 1)

\* the original bytes from the first retained line to the end of the file
NonDiscarded(data) ==
    LET lines == FileLines(data) IN
    IF IsCopyrightBlock(lines) THEN DropLines(data, BlockLen(lines)) ELSE data

\* C1: the bytes written after the Rendered Header and the optional separating
\* newline are, byte for byte, the original file's non-discarded bytes.
C1_RoundTrip ==
    Finished => \A p \in Updated : disk[p] = Output(NonDiscarded(before[p]))

\* C2: a second run with the same configuration leaves every file as the
\* first run left it.
C2_Idempotent ==
    (Finished /\ runs >= 2) => disk = before

\* C3: a file whose leading comment block does not contain "opyright" (also a
\* file with no leading block) becomes Rendered Header + separator + every
\* original line in order, the leading comment directly after the header.
C3_NonCopyrightKept ==
    Finished =>
        \A p \in Updated :
            LET lines == FileLines(before[p]) IN
            ~IsCopyrightBlock(lines) => disk[p] = Output(JoinLines(lines))

C3_Witness ==
    /\ Finished
    /\ pMainGo \in Updated
    /\ LET lines == FileLines(before[pMainGo]) IN
        /\ Len(lines) > 1
        /\ lines[1] = <<"/","/"," ","+","b","u","i","l","d"," ","l","i","n","u","x">>
        /\ disk[pMainGo] = tmpl \o <<LF>> \o JoinLines(lines)

\* C4: a file whose leading comment block is non-empty and contains
\* "opyright" becomes Rendered Header + separator + the original lines after
\* the block, in order and unchanged: the old block is not carried over.
C4_CopyrightReplaced ==
    Finished =>
        \A p \in Updated :
            LET lines == FileLines(before[p]) IN
            (BlockLen(lines) > 0 /\ IsCopyrightBlock(lines))
                => disk[p] = Output(AfterBlock(lines))

C4_Witness ==
    /\ Finished
    /\ runs = 1
    /\ pMainGo \in Updated
    /\ LET lines == FileLines(before[pMainGo]) IN
        /\ BlockLen(lines) = 2
        /\ Len(lines) = 3
        /\ IsCopyrightBlock(lines)
        /\ disk[pMainGo] = tmpl \o <<LF>> \o lines[3] \o <<LF>>

\* the comment marker the configured style opens a block with
StyleMarker(style) ==
    IF style = multi THEN <<"/","*">> ELSE IF style = hash THEN <<"#">> ELSE <<"/","/">>

HasAnyMarker(line) ==
    \E m \in { <<"/","/">>, <<"/","*">>, <<"#">> } : HasPrefix(line, m)

-----------------------------------------------------------------------------
(* Properties of a whole run, checked under Spec                           *)

\* the normalized (dot-prefixed) Extension Set of the extensions option
ExtensionSet ==
    LET parts == Split(cfg.extensions, ",")
        Dotted(e) == IF e[1] = "." THEN e ELSE <<".">> \o e
    IN  { Dotted(parts[i]) : i \in { j \in 1..Len(parts) : Len(parts[j]) > 0 } }

IsPathPrefix(t, p) == Len(t) <= Len(p) /\ SubSeq(p, 1, Len(t)) = t

HiddenName(name) == name[1] = "." /\ name \notin { <<".">>, <<".",".">> }

\* some directory from target t down to the parent of p has a hidden name
BeneathHidden(t, p) ==
    \E k \in Len(t)..(Len(p) - 1) : HiddenName(p[k])

\* the files the traversal of the targets has to rewrite
Selected(p) ==
    /\ p \in Files
    /\ Ext(p) \in ExtensionSet
    /\ \E i \in 1..Len(cfg.targets) :
          /\ IsPathPrefix(cfg.targets[i], p)
          /\ ~BeneathHidden(cfg.targets[i], p)

\* the files this run has opened, truncated or written
Touched ==
    { log[i].path : i \in { j \in 1..Len(log) :
                              log[j].op \in {"open", "create", "write", "updated"} } }

GoOnly == <<"g","o">>

\* C8: a file is rewritten if and only if it is a non-directory entry of the
\* traversal whose extension is in the Extension Set and which lies beneath
\* no directory with a hidden name; every other file is left unchanged (with
\* extensions "go", main.go is rewritten and main.txt is not).
C8_TargetSelection ==
    /\ \A p \in Files : ~Selected(p) => (disk[p] = before[p] /\ p \notin Touched)
    /\ Finished => \A p \in Files : Selected(p) <=> p \in Updated
    /\ (Finished /\ cfg.extensions = GoOnly /\ cfg.targets = <<pRoot>>)
          => (pMainGo \in Updated /\ pMainTxt \notin Updated)

C8_Witness ==
    /\ Finished
    /\ cfg.extensions = GoOnly
    /\ cfg.targets = <<pRoot>>
    /\ Updated = {pMainGo, pSubA}
    /\ disk[pMainGo] # before[pMainGo]
    /\ disk[pMainTxt] = before[pMainTxt]
    /\ disk[pGitX] = before[pGitX]

Errors == { i \in 1..Len(log) : log[i].op = "error" }

\* the completed rewrite log[i] is the last thing the run did to its file
LastWord(i) ==
    /\ log[i].op = "updated"
    /\ \A j \in (i + 1)..Len(log) : log[j].path # log[i].path

\* C9: when an open, read, create or write fails, the run stops at that file
\* with a failure outcome, nothing is opened, truncated or written after the
\* failure, and every file rewritten before it keeps its rewritten content.
C9_AbortOnFirstError ==
    /\ Errors # {} => (pc = ExitFail /\ Errors = {Len(log)})
    /\ (pc = ExitFail /\ log # <<>>) =>
          \A i \in 1..Len(log) : LastWord(i) => disk[log[i].path] = log[i].data
    /\ (pc = ExitFail /\ log # <<>>) =>
          \A p \in Files \ (Touched \cup {log[Len(log)].path}) : disk[p] = before[p]

C9_Witness ==
    /\ pc = ExitFail
    /\ cfg.targets = <<pRoot>>
    /\ Len(log) > 1
    /\ log[Len(log)].path = pSubA
    /\ \E i \in 1..Len(log) : log[i].op = "create" /\ log[i].path = pSubA
    /\ pMainGo \in Updated
    /\ disk[pMainGo] = Output(<<LF,"m",LF>>)

\* the configuration errors
NoTargets == Len(cfg.targets) = 0
BadStyle == cfg.commentStyle \notin {single, multi, hash}
NoExtensions == ExtensionSet = {}
TemplateUnreadable == cfg.template # <<>> /\ ~tmplFile.readable
ConfigurationError == NoTargets \/ BadStyle \/ NoExtensions \/ TemplateUnreadable

\* C10: with no target, a style other than single/multi/hash, an empty
\* Extension Set or an unreadable template file, the run ends with a failure
\* status and no target file is ever opened, truncated or written.
C10_ConfigErrorsTouchNothing ==
    ConfigurationError =>
        /\ pc \in {"main", ExitFail}
        /\ log = <<>>
        /\ disk = before
        /\ open = {}
        /\ stdout = <<>>

C10_Witness ==
    /\ pc = ExitFail
    /\ BadStyle
    /\ ~NoTargets /\ ~NoExtensions /\ ~TemplateUnreadable
    /\ pRoot = cfg.targets[1]


-----------------------------------------------------------------------------
(* Properties of the file handles, checked under Spec                      *)

\* no file is being processed: before the first, between two, after the last,
\* or after the run was aborted
NoFileInProgress == pc \in {"main", "walk", "open", ExitOK, ExitFail}

\* the handles a file can have
Handles(p) == { <<p, "r">>, <<p, "w">> }

\* the last failure of the run hit file p after its os.Create had succeeded
FailedWriting(p) ==
    /\ pc = ExitFail
    /\ Len(log) > 1
    /\ log[Len(log)] = Event("error", p)
    /\ \E i \in 1..(Len(log) - 1) :
          /\ log[i] = Event("create", p)
          /\ \A j \in (i + 1)..(Len(log) - 1) : log[j] = Event("write", p)

\* C11: on every exit path of processing one file each handle opened for it
\* has been closed when the processing ends: no handle is open when the next
\* file begins or when the run aborts, and the only handles ever open are
\* those of the file being processed.
C11_HandlesReleased ==
    /\ NoFileInProgress => open = {}
    /\ ~NoFileInProgress => open \subseteq Handles(path)

C11_Witness ==
    /\ FailedWriting(pSubA)
    /\ log[Len(log) - 1] = Event("write", pSubA)
    /\ \E i \in 1..Len(log) : log[i] = Event("open", pSubA)
    /\ pMainGo \in Updated
    /\ open = {}


-----------------------------------------------------------------------------
(* Properties of the progress output, checked under Spec                   *)

\* the paths of the entries of history s with operation op, in order
RECURSIVE SelectPaths(_, _)
SelectPaths(s, op) ==
    IF s = <<>> THEN <<>>
    ELSE (IF Head(s).op = op THEN <<Head(s).path>> ELSE <<>>)
         \o SelectPaths(Tail(s), op)

\* the number of "Updated p" lines printed so far
Lines(p) == Cardinality({ i \in 1..Len(stdout) : stdout[i] = <<"Updated", p>> })

\* the tool has truncated file p in this run
Modified(p) == \E i \in 1..Len(log) : log[i] = Event("create", p)

\* the number of rewrites of p this run has completed
Rewrites(p) ==
    Cardinality({ i \in 1..Len(log) : log[i].op = "updated" /\ log[i].path = p })

RunOver == pc \in {ExitOK, ExitFail}

\* C12 as stated: when the run is over, each file the tool modified has
\* exactly one line "Updated <path>" (none in quiet mode), and a file that
\* was not modified has none.
C12_OneLinePerModifiedFile ==
    RunOver =>
        \A p \in Files :
            Lines(p) = IF Modified(p) /\ ~cfg.quiet THEN 1 ELSE 0

\* C12 amended: one line "Updated <path>" is printed for each completed
\* rewrite of a file, in the order of the rewrites, and none in quiet mode: a
\* file reached through two targets has one line per rewrite, a file whose
\* rewrite failed after it was truncated has none for that rewrite, and a
\* file that was never truncated has none at all.
C12_OneLinePerRewrite ==
    /\ ~cfg.quiet =>
          stdout = [i \in 1..Len(SelectPaths(log, "updated")) |->
                       <<"Updated", SelectPaths(log, "updated")[i]>>]
    /\ cfg.quiet => stdout = <<>>
    /\ \A p \in Files : Lines(p) = IF cfg.quiet THEN 0 ELSE Rewrites(p)
    /\ \A p \in Files : ~Modified(p) => Lines(p) = 0

C12_Witness ==
    /\ ~cfg.quiet
    /\ cfg.targets = <<pMainGo, pRoot>>
    /\ FailedWriting(pSubA)
    /\ Lines(pMainGo) = 2
    /\ Lines(pSubA) = 0
    /\ disk[pSubA] # before[pSubA]
    /\ stdout = << <<"Updated", pMainGo>>, <<"Updated", pMainGo>> >>


-----------------------------------------------------------------------------
(* Properties of the rewrite and of the scan, checked under SpecFile       *)

\* C13: between the Rendered Header and the retained buffer one newline is
\* written if and only if the buffer is non-empty and its first byte is not a
\* newline; with an empty buffer the rewritten file is exactly the Rendered
\* Header; never more than one byte is inserted.
C13_SeparatorRule ==
    /\ pc = "rest" =>
          disk[path] = tmpl \o (IF buffer # <<>> /\ buffer[1] # LF THEN <<LF>> ELSE <<>>)
    /\ pc = "report" =>
          /\ (buffer # <<>> /\ buffer[1] # LF) <=> disk[path] = tmpl \o <<LF>> \o buffer
          /\ (buffer = <<>> \/ buffer[1] = LF) <=> disk[path] = tmpl \o buffer
          /\ buffer = <<>> => disk[path] = tmpl
          /\ Len(disk[path]) <= Len(tmpl) + 1 + Len(buffer)

\* the first run inserted the newline before "m", the second run finds the
\* retained buffer starting with that newline and inserts none
C13_Witness ==
    /\ pc = "report"
    /\ runs = 2
    /\ tmpl # <<>>
    /\ before[pMainGo] = tmpl \o <<LF>> \o <<"m", LF>>
    /\ buffer = <<LF, "m", LF>>
    /\ disk[pMainGo] = tmpl \o buffer

\* the lines of the file being scanned, and how many the scanner has consumed
AllLines == FileLines(disk[path])
Consumed == Len(AllLines) - Len(FileLines(f))

Least(a, b) == IF a <= b THEN a ELSE b

\* the whitespace-trimmed line ends with the block-comment closer
Closes(line) == HasSuffix(TrimSpace(line), <<"*","/">>)

\* the smallest index of a line of lines that closes
FirstCloser(lines) ==
    LET closers == { i \in 1..Len(lines) : Closes(lines[i]) }
    IN  CHOOSE i \in closers : \A j \in closers : i <= j

\* C14: in a file whose first line starts with "/*" the leading block is
\* lines 1..k, k the smallest index of a line whose trimmed text ends with
\* "*/" (k = 1 when the opening line closes); line k is in the block and every
\* line after k goes to the remainder, also one that ends with "*/" or starts
\* with a comment marker.
C14_BlockCommentExtent ==
    (pc = "scan" /\ f # disk[path]) =>
        LET lines == AllLines
            n == Len(lines) - Len(FileLines(f))
            k == FirstCloser(lines)
        IN  (HasPrefix(lines[1], <<"/","*">>) /\ \E i \in 1..Len(lines) : Closes(lines[i])) =>
                /\ trimmedBuffer = JoinLines(SubSeq(lines, 1, Least(n, k)))
                /\ contentBuffer = JoinLines(SubSeq(lines, k + 1, n))
                /\ state = IF n < k THEN lookForStarSlash ELSE copyRemainder
                /\ (k = 1 <=> Closes(lines[1]))

C14_Witness ==
    /\ pc = "scan"
    /\ f = <<>>
    /\ AllLines = << <<"/","*">>, <<" ","*"," ","C","o","p","y","r","i","g","h","t">>,
                     <<" ","*","/"," ">>, <<"/","/"," ","y">>, <<"y"," ","*","/">> >>
    /\ FirstCloser(AllLines) = 3
    /\ trimmedBuffer = JoinLines(SubSeq(AllLines, 1, 3))
    /\ contentBuffer = <<"/","/"," ","y",LF,"y"," ","*","/",LF>>

\* the markers of line comments
LineMarkers == { <<"/","/">>, <<"#">> }

\* the length of the maximal prefix of lines that start with m
PrefixRun(lines, m) ==
    CHOOSE r \in 0..Len(lines) :
        /\ \A i \in 1..r : HasPrefix(lines[i], m)
        /\ r < Len(lines) => ~HasPrefix(lines[r + 1], m)

StateFor(m) == IF m = <<"#">> THEN lookForHash ELSE lookForSlashSlash

\* after each consumed line of a file that starts with marker m the buffers
\* are split at the end of the maximal prefix of lines starting with m
LineCommentExtent ==
    (pc = "scan" /\ f # disk[path]) =>
        LET lines == AllLines
            n == Len(lines) - Len(FileLines(f))
        IN  \A m \in LineMarkers :
                HasPrefix(lines[1], m) =>
                    LET r == PrefixRun(lines, m) IN
                    /\ trimmedBuffer = JoinLines(SubSeq(lines, 1, Least(n, r)))
                    /\ contentBuffer = JoinLines(SubSeq(lines, r + 1, n))
                    /\ state = IF n <= r THEN StateFor(m) ELSE copyRemainder

\* a step of the scan taken in state copyRemainder keeps the state and the
\* discarded buffer, and appends the line it consumes to the retained buffer
RemainderIsTerminal ==
    (pc = "scan" /\ state = copyRemainder) =>
        /\ state' = copyRemainder
        /\ trimmedBuffer' = trimmedBuffer
        /\ f' # f => contentBuffer' = contentBuffer \o ScanToken(f).text \o <<LF>>
        /\ f' = f => contentBuffer' = contentBuffer

\* C15: in a file whose first line starts with "//" (or "#") the leading block
\* is the maximal prefix of lines starting with that marker; the first line
\* without it moves the classifier to copyRemainder; from then on the state
\* never changes and every further line goes to the retained buffer, also a
\* line that starts with a comment marker.
C15_LineCommentExtent ==
    []LineCommentExtent /\ [][RemainderIsTerminal]_vars

C15_Witness ==
    /\ pc = "scan"
    /\ f = <<>>
    /\ AllLines = << <<"/","/"," ","C","o","p","y","r","i","g","h","t">>, <<"/","/">>,
                     <<"m">>, <<"/","/"," ","y">> >>
    /\ PrefixRun(AllLines, <<"/","/">>) = 2
    /\ state = copyRemainder
    /\ trimmedBuffer = JoinLines(SubSeq(AllLines, 1, 2))
    /\ contentBuffer = <<"m",LF,"/","/"," ","y",LF>>

\* the lines the scanner has consumed so far
LinesRead == SubSeq(AllLines, 1, Consumed)

\* C16: after each line the classifier consumes, every line read so far is in
\* exactly one of the two buffers, each buffer holds its lines in file order,
\* and every discarded line precedes every retained line: the discarded
\* buffer followed by the retained buffer is the sequence of lines read.
C16_Partition ==
    pc \in {"scan", "create"} =>
        LET read == LinesRead
            n == Len(read)
            j == Len(FileLines(trimmedBuffer))
        IN  /\ j <= n
            /\ trimmedBuffer = JoinLines(SubSeq(read, 1, j))
            /\ contentBuffer = JoinLines(SubSeq(read, j + 1, n))
            /\ trimmedBuffer \o contentBuffer = JoinLines(read)
            /\ j + Len(FileLines(contentBuffer)) = n

C16_Witness ==
    /\ pc = "scan"
    /\ Consumed = 3
    /\ LinesRead = << <<"#"," ","x">>, <<"m">>, <<"/","/"," ","y">> >>
    /\ trimmedBuffer = <<"#"," ","x",LF>>
    /\ contentBuffer = <<"m",LF,"/","/"," ","y",LF>>
    /\ state = copyRemainder


-----------------------------------------------------------------------------
(* Properties of the order of reading and truncating, checked under Spec   *)

\* what file p held when the processing of it last began: what the last
\* completed rewrite of p left, or what it held at the start of the run
Settled(p) ==
    LET done == { i \in 1..Len(log) : log[i].op = "updated" /\ log[i].path = p }
    IN  IF done = {} THEN before[p]
        ELSE log[CHOOSE i \in done : \A j \in done : j <= i].data

\* the file in progress has been truncated
Truncated == pc \in {"header", "sep", "rest", "report"}

\* the run was aborted by a failure on p that no os.Create of p preceded
FailedBeforeCreate(p) ==
    /\ pc = ExitFail
    /\ log # <<>>
    /\ log[Len(log)] = Event("error", p)
    /\ ~FailedWriting(p)

\* in every state: a truncated file was read to the end, classified and its
\* read handle closed; a file being read, or whose open or read failed, holds
\* what it held; no file has both handles open
ReadBeforeTruncate ==
    /\ Truncated =>
          /\ f = <<>>
          /\ buffer = Returned(trimmedBuffer, contentBuffer)
          /\ open = {<<path, "w">>}
    /\ pc \in {"open", "scan", "create"} => disk[path] = Settled(path)
    /\ pc = "scan" => open = {<<path, "r">>}
    /\ \A p \in Files : FailedBeforeCreate(p) => disk[p] = Settled(p)
    /\ \A p \in Files : ~(<<p, "r">> \in open /\ <<p, "w">> \in open)

\* in every step: the files change only by os.Create and the writes after
\* it, with the scanner at the end of input and the read handle closed
TruncateAfterRead ==
    disk' # disk =>
        /\ pc \in {"create", "header", "sep", "rest"}
        /\ f = <<>>
        /\ <<path, "r">> \notin open
        /\ \A p \in Files \ {path} : disk'[p] = disk[p]

\* C17: a file is truncated only after it has been read to the end without
\* error, classified, and its read handle closed; if opening or reading it
\* fails its content on disk is unchanged; its read handle and its write
\* handle are never open at the same time.
C17_ReadBeforeTruncate ==
    []ReadBeforeTruncate /\ [][TruncateAfterRead]_vars

\* main.go, given twice, is rewritten and then fails in the middle of the
\* second read: it holds what the first rewrite left
C17_Witness ==
    /\ pc = ExitFail
    /\ cfg.targets = <<pMainGo, pMainGo>>
    /\ FailedBeforeCreate(pMainGo)
    /\ Len(log) > 1
    /\ log[Len(log) - 1] = Event("open", pMainGo)
    /\ f # <<>>
    /\ pMainGo \in Updated
    /\ disk[pMainGo] = Settled(pMainGo)
    /\ disk[pMainGo] # before[pMainGo]
    /\ open = {}

=============================================================================
